---- MODULE Spec2Model ----
(***************************************************************************)
(* Persona marketplace backend (yang208115/ds): the persona repository,    *)
(* its dual-mode avatar storage, the view counter and the search engine,   *)
(* modelled as state machines over the tables personas and                 *)
(* persona_avatars; the accounts (users and author_avatars) with           *)
(* registration and profile updates; and the database sessions of a        *)
(* request.                                                                *)
(*                                                                         *)
(* Text values (name, avatar, content, tags, ...) are sequences of         *)
(* one-character strings, so that strip, split, the ^https?:// test and    *)
(* SQL LIKE are computed character by character.                           *)
(***************************************************************************)
EXTENDS Integers, Sequences, FiniteSets, TLC

VARIABLES
    personas,   \* table personas: a set of rows
    avatars,    \* table persona_avatars: a set of [persona_uuid, base64]
    nextId,     \* AUTO_INCREMENT of personas.id
    clock,      \* the database's now()
    last,       \* the last request served and its response
    workers,    \* in-flight requests of the interleaved specification
    completed,  \* per persona id: increments the interleaved view requests committed
    users,          \* table users: a set of rows
    author_avatars, \* table author_avatars: a set of [user_uuid, base64]
    nextUserId,     \* AUTO_INCREMENT of users.id
    sessions        \* the request in flight and the database sessions of its dependencies

vars == <<personas, avatars, nextId, clock, last, workers, completed,
          users, author_avatars, nextUserId, sessions>>

personaVars == <<personas, avatars, nextId, clock, workers, completed>>
accountVars == <<users, author_avatars, nextUserId, sessions>>

----------------------------------------------------------------------------
(* Bounds of the exploration *)

MaxPersonas == 2    \* rows ever inserted (ids 1..MaxPersonas)
MaxViews == 2       \* largest view_count explored
MaxClock == 1       \* now() ranges over 0..MaxClock
MaxWorkers == 2     \* requests in flight at once

----------------------------------------------------------------------------
(* Values *)

NULL == <<"NULL">>          \* SQL NULL / Python None of a text column
None == <<"none", 0>>       \* SQL NULL / Python None of a uuid column
NoCount == -1               \* SQL NULL / Python None of view_count
Anonymous == <<"anon", 0>>  \* get_current_user_optional returned None

SP == " "
Whitespace == {SP}

\* users.uuid of the registered users
Users == {<<"user", 1>>, <<"user", 2>>}

\* uuid4() of the row inserted with the given id: never repeats
Uuid4(id) == <<"gen", id>>

----------------------------------------------------------------------------
(* Text helpers *)

RECURSIVE LStrip(_)
LStrip(s) ==
    IF s # <<>> /\ Head(s) \in Whitespace THEN LStrip(Tail(s)) ELSE s

RECURSIVE RStrip(_)
RStrip(s) ==
    IF s # <<>> /\ s[Len(s)] \in Whitespace
    THEN RStrip(SubSeq(s, 1, Len(s) - 1))
    ELSE s

\* str.strip()
Strip(s) == RStrip(LStrip(s))

\* Python truthiness of an Optional[str]
Truthy(s) == s # NULL /\ s # <<>>

IsPrefix(p, s) == Len(p) <= Len(s) /\ SubSeq(s, 1, Len(p)) = p

\* re.match(r'^https?://', s)
IsRemoteMutant(s) == IsPrefix(<<"h","t","t","p">>, s)
IsRemote(s) ==
    \/ IsPrefix(<<"h","t","t","p",":","/","/">>, s)
    \/ IsPrefix(<<"h","t","t","p","s",":","/","/">>, s)

\* str.split(','): the pieces between commas, empty pieces included
RECURSIVE Split(_, _)
Split(s, cur) ==
    IF s = <<>> THEN <<cur>>
    ELSE IF Head(s) = "," THEN <<cur>> \o Split(Tail(s), <<>>)
    ELSE Split(Tail(s), Append(cur, Head(s)))

\* [tag.strip() for tag in v.split(',') if tag.strip()]
RECURSIVE StripNonEmpty(_)
StripNonEmpty(parts) ==
    IF parts = <<>> THEN <<>>
    ELSE IF Strip(Head(parts)) = <<>> THEN StripNonEmpty(Tail(parts))
    ELSE <<Strip(Head(parts))>> \o StripNonEmpty(Tail(parts))

TagTokens(v) == StripNonEmpty(Split(v, <<>>))

\* ','.join(tags)
RECURSIVE Join(_)
Join(parts) ==
    IF parts = <<>> THEN <<>>
    ELSE IF Len(parts) = 1 THEN Head(parts)
    ELSE Head(parts) \o <<",">> \o Join(Tail(parts))

\* the tags validator of PersonaBase and PersonaUpdate
format_tagsMutant(v) == IF Truthy(v) THEN v ELSE NULL
format_tags(v) ==
    IF Truthy(v)
    THEN (IF TagTokens(v) # <<>> THEN Join(TagTokens(v)) ELSE NULL)
    ELSE NULL

----------------------------------------------------------------------------
(* Request schemas.  A request object carries every field of the schema    *)
(* (unset ones hold the schema default) and fields_set, the names the      *)
(* client sent: model_dump(exclude_unset=True) keeps exactly those.        *)

Fields == {"uuid", "view_count", "name", "avatar", "content", "description",
           "tags", "author_uuid"}

\* PersonaUpdate with nothing set
EmptyUpdate ==
    [fields_set |-> {}, uuid |-> None, view_count |-> NoCount, name |-> NULL,
     avatar |-> NULL, content |-> NULL, description |-> NULL, tags |-> NULL,
     author_uuid |-> None]

\* PersonaCreate with only the required name set
NewCreate(name) ==
    [fields_set |-> {"name"}, uuid |-> None, view_count |-> 0, name |-> name,
     avatar |-> NULL, content |-> NULL, description |-> NULL, tags |-> NULL,
     author_uuid |-> None]

\* name_must_not_be_empty and content_must_not_be_empty, with Field(min_length=1)
\* and Field(ge=0); validators run on the fields the client sent only
CreateValid(r) ==
    /\ r.name # NULL /\ Len(r.name) >= 1 /\ Strip(r.name) # <<>>
    /\ "content" \in r.fields_set => Truthy(r.content) /\ Strip(r.content) # <<>>
    /\ "view_count" \in r.fields_set => r.view_count >= 0

\* the PersonaCreate object the handler receives
CreateParsed(r) ==
    [r EXCEPT !.name = Strip(r.name),
              !.content = IF "content" \in r.fields_set THEN Strip(r.content) ELSE NULL,
              !.tags = IF "tags" \in r.fields_set THEN format_tags(r.tags) ELSE NULL]

\* name_must_not_be_empty_if_provided and content_must_not_be_empty_if_provided
UpdateValid(r) ==
    /\ ("name" \in r.fields_set /\ r.name # NULL)
          => Len(r.name) >= 1 /\ Strip(r.name) # <<>>
    /\ ("content" \in r.fields_set /\ r.content # NULL) => Strip(r.content) # <<>>
    /\ ("view_count" \in r.fields_set /\ r.view_count # NoCount) => r.view_count >= 0

\* the PersonaUpdate object the handler receives
UpdateParsed(r) ==
    [r EXCEPT !.name = IF Truthy(r.name) THEN Strip(r.name) ELSE NULL,
              !.content = IF Truthy(r.content) THEN Strip(r.content) ELSE NULL,
              !.tags = IF "tags" \in r.fields_set THEN format_tags(r.tags) ELSE NULL]

----------------------------------------------------------------------------
(* Tables *)

\* the columns of personas that are modelled (title, ext_data and
\* create_time are plain columns no handler reads)
Columns == Fields \cup {"id", "update_time"}

RowsById(P, id) == {p \in P : p.id = id}
RowsByName(P, name) == {p \in P : p.name = name}

\* Persona.avatar_rel: the persona_avatars rows whose persona_uuid is the row's uuid
avatar_rel(A, row) == {a \in A : a.persona_uuid = row.uuid}

\* personas without the foreign key and NOT NULL of author_uuid
ConstraintsOKNoAuthorKey(P, A) ==
    /\ \A p \in P : p.uuid # None /\ p.name # NULL
    /\ \A p, q \in P : (p.uuid = q.uuid \/ p.id = q.id) => p = q
    /\ \A a \in A : \E p \in P : p.uuid = a.persona_uuid
    /\ \A a, b \in A : a.persona_uuid = b.persona_uuid => a = b

\* persona_avatars without the foreign key of persona_uuid
ConstraintsOKNoAvatarKey(P, A) ==
    /\ \A p \in P : p.uuid # None /\ p.name # NULL /\ p.author_uuid \in Users
    /\ \A p, q \in P : (p.uuid = q.uuid \/ p.id = q.id) => p = q
    /\ \A a, b \in A : a.persona_uuid = b.persona_uuid => a = b

\* NOT NULL, UNIQUE and FOREIGN KEY constraints of the two tables, as InnoDB
\* enforces them on every statement
ConstraintsOK(P, A) ==
    /\ \A p \in P : p.uuid # None /\ p.name # NULL /\ p.author_uuid \in Users
    /\ \A p, q \in P : (p.uuid = q.uuid \/ p.id = q.id) => p = q
    /\ \A a \in A : \E p \in P : p.uuid = a.persona_uuid
    /\ \A a, b \in A : a.persona_uuid = b.persona_uuid => a = b

\* PersonaInDB.from_db: the effective avatar and the fields of the response
EffectiveAvatarMutant(A, row) == row.avatar
EffectiveAvatar(A, row) ==
    IF avatar_rel(A, row) # {}
    THEN (CHOOSE a \in avatar_rel(A, row) : TRUE).base64
    ELSE row.avatar

from_db(A, row) == [row EXCEPT !.avatar = EffectiveAvatar(A, row)]

\* from_db builds a PersonaInDB, whose validators run on the stored values:
\* view_count must be an int >= 0 and content, passed explicitly, non-empty
ResponseValid(row) ==
    /\ row.view_count # NoCount /\ row.view_count >= 0
    /\ Truthy(row.content) /\ Strip(row.content) # <<>>
    /\ Truthy(row.name) /\ Strip(row.name) # <<>>

----------------------------------------------------------------------------
(* Repository operations on a database (P, A) at time now.  Each returns   *)
(* the HTTP status, the database it leaves committed and the response.     *)

Reply(status, P, A, body) == [status |-> status, P |-> P, A |-> A, body |-> body]

\* the inline payload branch of CRUDPersona.create and CRUDPersona.update
IsInline(a) == Truthy(a) /\ ~IsRemote(a)

\* Persona(**obj_in_data), with the URL assigned when the avatar is remote
NewRow(id, now, r) ==
    [id |-> id,
     uuid |-> IF "uuid" \in r.fields_set /\ r.uuid # None THEN r.uuid ELSE Uuid4(id),
     view_count |-> IF "view_count" \in r.fields_set THEN r.view_count ELSE 0,
     name |-> r.name,
     avatar |-> IF Truthy(r.avatar) /\ IsRemote(r.avatar) THEN r.avatar ELSE NULL,
     content |-> r.content,
     description |-> r.description,
     tags |-> r.tags,
     author_uuid |-> r.author_uuid,
     update_time |-> now]

\* PersonaAvatar(persona_uuid=..., base64=...)
NewAvatar(uuid, payload) == [persona_uuid |-> uuid, base64 |-> payload]

\* CRUDPersona.create: two commits, the row and then its inline avatar
CrudCreate(P, A, id, now, r) ==
    LET row == NewRow(id, now, r)
        P1 == P \cup {row}
        A1 == IF IsInline(r.avatar) THEN A \cup {NewAvatar(row.uuid, r.avatar)} ELSE A
    IN  IF ~ConstraintsOK(P1, A) THEN Reply(500, P, A, {})
        ELSE IF ~ConstraintsOK(P1, A1) THEN Reply(500, P1, A, {})
        ELSE IF ~ResponseValid(row) THEN Reply(500, P1, A1, {})
        ELSE Reply(200, P1, A1, {from_db(A1, row)})

\* create_persona: the name check, then the author and CRUDPersona.create
create_persona(P, A, id, now, raw, user) ==
    IF ~CreateValid(raw) THEN Reply(422, P, A, {})
    ELSE LET r == CreateParsed(raw)
         IN  IF RowsByName(P, r.name) # {} THEN Reply(400, P, A, {})
             ELSE CrudCreate(P, A, id, now,
                             [r EXCEPT !.author_uuid = user,
                                       !.fields_set = @ \cup {"author_uuid"}])

\* for field, value in update_data.items(): setattr(db_obj, field, value)
SetAttrsMutant(row, r) ==
    LET Value(c) == IF c \in r.fields_set \cup {"view_count"} THEN r[c] ELSE row[c]
    IN  [id |-> row.id,
         uuid |-> Value("uuid"),
         view_count |-> Value("view_count"),
         name |-> Value("name"),
         avatar |-> row.avatar,
         content |-> Value("content"),
         description |-> Value("description"),
         tags |-> Value("tags"),
         author_uuid |-> Value("author_uuid"),
         update_time |-> row.update_time]
SetAttrs(row, r) ==
    LET Value(c) == IF c \in r.fields_set THEN r[c] ELSE row[c]
    IN  [id |-> row.id,
         uuid |-> Value("uuid"),
         view_count |-> Value("view_count"),
         name |-> Value("name"),
         avatar |-> row.avatar,
         content |-> Value("content"),
         description |-> Value("description"),
         tags |-> Value("tags"),
         author_uuid |-> Value("author_uuid"),
         update_time |-> row.update_time]

\* the avatar branch of CRUDPersona.update: the new avatar column
UpdatedAvatarColumnMutant(row, r) ==
    IF "avatar" \in r.fields_set /\ ~IsInline(r.avatar) THEN r.avatar ELSE row.avatar
UpdatedAvatarColumn(row, r) ==
    IF "avatar" \notin r.fields_set THEN row.avatar
    ELSE IF IsInline(r.avatar) THEN NULL
    ELSE r.avatar

\* the avatar branch of CRUDPersona.update: persona_avatars after the
\* INSERT or UPDATE of the inline record (the DELETE is flushed later)
SavedAvatars(A, row, r) ==
    IF "avatar" \in r.fields_set /\ IsInline(r.avatar)
    THEN IF avatar_rel(A, row) # {}
         THEN LET old == CHOOSE a \in avatar_rel(A, row) : TRUE
              IN  (A \ {old}) \cup {[old EXCEPT !.base64 = r.avatar]}
         ELSE A \cup {NewAvatar(row.uuid, r.avatar)}
    ELSE A

\* db.delete(db_obj.avatar_rel) when the new avatar is not inline; rel is the
\* record loaded through the relationship
DeletedAvatarsMutant(A, rel, r) == A
DeletedAvatars(A, rel, r) ==
    IF "avatar" \in r.fields_set /\ ~IsInline(r.avatar) THEN A \ rel ELSE A

\* CRUDPersona.update: the flush writes personas, then saves and then deletes
\* persona_avatars; a failed statement aborts the commit
CrudUpdate(P, A, now, row, r) ==
    LET set == [SetAttrs(row, r) EXCEPT !.avatar = UpdatedAvatarColumn(row, r)]
        row1 == IF set = row THEN row ELSE [set EXCEPT !.update_time = now]
        P1 == (P \ {row}) \cup {row1}
        A1 == SavedAvatars(A, row, r)
        A2 == DeletedAvatars(A1, avatar_rel(A, row), r)
    IN  IF ~ConstraintsOK(P1, A) \/ ~ConstraintsOK(P1, A1) \/ ~ConstraintsOK(P1, A2)
        THEN Reply(500, P, A, {})
        ELSE IF ~ResponseValid(row1) THEN Reply(500, P1, A2, {})
        ELSE Reply(200, P1, A2, {from_db(A2, row1)})

\* update_persona: not found, the name conflict check, CRUDPersona.update
NameTakenMutant(P, id, r, row) == FALSE
NameTaken(P, id, r, row) ==
    /\ Truthy(r.name) /\ r.name # row.name
    /\ \E q \in P : q.name = r.name /\ q.id # id

update_persona(P, A, now, id, raw) ==
    IF ~UpdateValid(raw) THEN Reply(422, P, A, {})
    ELSE IF RowsById(P, id) = {} THEN Reply(404, P, A, {})
    ELSE LET r == UpdateParsed(raw)
             row == CHOOSE p \in RowsById(P, id) : TRUE
         IN  IF NameTaken(P, id, r, row) THEN Reply(400, P, A, {})
             ELSE CrudUpdate(P, A, now, row, r)

\* delete_persona and CRUDPersona.remove: the delete cascades to avatar_rel;
\* the response is built from the deleted object
delete_personaMutant(P, A, id) ==
    IF RowsById(P, id) = {} THEN Reply(404, P, A, {})
    ELSE LET row == CHOOSE p \in RowsById(P, id) : TRUE
             P1 == P \ {row}
             A1 == A \ avatar_rel(A, row)
         IN  IF ~ConstraintsOK(P1, A1) THEN Reply(500, P, A, {})
             ELSE IF ~ResponseValid(row) THEN Reply(500, P1, A1, {})
             ELSE Reply(200, P1, A1, {from_db(A1, row)})
delete_persona(P, A, id) ==
    IF RowsById(P, id) = {} THEN Reply(404, P, A, {})
    ELSE LET row == CHOOSE p \in RowsById(P, id) : TRUE
             P1 == P \ {row}
             A1 == A \ avatar_rel(A, row)
         IN  IF ~ConstraintsOK(P1, A1) THEN Reply(500, P, A, {})
             ELSE IF ~ResponseValid(row) THEN Reply(500, P1, A1, {})
             ELSE Reply(200, P1, A1, {from_db(A, row)})

\* is_author of increment_persona_view
IsAuthorMutant(row, viewer) == FALSE
IsAuthor(row, viewer) ==
    viewer # Anonymous /\ row.author_uuid # None /\ viewer = row.author_uuid

\* (persona.view_count or 0) + 1
Incremented(row) == (IF row.view_count = NoCount THEN 0 ELSE row.view_count) + 1

\* increment_persona_view
increment_persona_view(P, A, now, id, viewer) ==
    IF RowsById(P, id) = {} THEN Reply(404, P, A, {})
    ELSE LET row == CHOOSE p \in RowsById(P, id) : TRUE
             row1 == [row EXCEPT !.view_count = Incremented(row), !.update_time = now]
         IN  IF IsAuthor(row, viewer)
             THEN (IF ResponseValid(row) THEN Reply(200, P, A, {from_db(A, row)})
                   ELSE Reply(500, P, A, {}))
             ELSE IF ~ResponseValid(row1) THEN Reply(500, (P \ {row}) \cup {row1}, A, {})
             ELSE Reply(200, (P \ {row}) \cup {row1}, A, {from_db(A, row1)})

\* read_persona
read_personaMutant(P, A, id) ==
    IF \A p \in RowsById(P, id) : ResponseValid(p)
    THEN Reply(200, P, A, {from_db(A, p) : p \in RowsById(P, id)})
    ELSE Reply(500, P, A, {})
read_persona(P, A, id) ==
    IF RowsById(P, id) = {} THEN Reply(404, P, A, {})
    ELSE LET row == CHOOSE p \in RowsById(P, id) : TRUE
         IN  IF ResponseValid(row) THEN Reply(200, P, A, {from_db(A, row)})
             ELSE Reply(500, P, A, {})

----------------------------------------------------------------------------
(* Requests served one at a time: one action per endpoint, the whole       *)
(* handler in one step.  last is the response on its way to the client,    *)
(* with the request and the tables as they were when it arrived (P, A);    *)
(* the next request comes when the client has read the response.           *)

Ids == 1..MaxPersonas
Workers == 1..MaxWorkers

\* a worker thread of the server that is serving no request
Idle ==
    [pc |-> "idle", op |-> "none", id |-> 0, req |-> EmptyUpdate, user |-> None,
     seen |-> {}]

\* PersonaSearch with nothing set but skip and limit
NoQuery == [keyword |-> NULL, tags |-> NULL, author_uuid |-> None, skip |-> 0, limit |-> 1]

NoRequest ==
    [op |-> "none", id |-> 0, req |-> EmptyUpdate, user |-> None, status |-> 0,
     body |-> {}, P |-> {}, A |-> {}, query |-> NoQuery, items |-> <<>>, total |-> 0]

Served(op, id, raw, user, res) ==
    /\ personas' = res.P
    /\ avatars' = res.A
    /\ last' = [NoRequest EXCEPT !.op = op, !.id = id, !.req = raw, !.user = user,
                                 !.status = res.status, !.body = res.body,
                                 !.P = personas, !.A = avatars]

CreatePersona(Inputs, Callers) ==
    /\ last.op = "none"
    /\ nextId <= MaxPersonas
    /\ \E raw \in Inputs, user \in Callers :
       \E res \in {create_persona(personas, avatars, nextId, clock, raw, user)} :
          /\ Served("create", nextId, raw, user, res)
          /\ nextId' = IF res.P # personas THEN nextId + 1 ELSE nextId
    /\ UNCHANGED <<clock, workers, completed, accountVars>>

UpdatePersona(Patches) ==
    /\ last.op = "none"
    /\ \E id \in Ids, raw \in Patches :
       \E res \in {update_persona(personas, avatars, clock, id, raw)} :
          Served("update", id, raw, None, res)
    /\ UNCHANGED <<nextId, clock, workers, completed, accountVars>>

DeletePersona ==
    /\ last.op = "none"
    /\ \E id \in Ids :
       \E res \in {delete_persona(personas, avatars, id)} :
          Served("remove", id, EmptyUpdate, None, res)
    /\ UNCHANGED <<nextId, clock, workers, completed, accountVars>>

IncrementView(Viewers) ==
    /\ last.op = "none"
    /\ \E id \in Ids, viewer \in Viewers :
          /\ \A p \in RowsById(personas, id) : p.view_count < MaxViews
          /\ \E res \in {increment_persona_view(personas, avatars, clock, id, viewer)} :
                Served("view", id, EmptyUpdate, viewer, res)
    /\ UNCHANGED <<nextId, clock, workers, completed, accountVars>>

ReadPersona ==
    /\ last.op = "none"
    /\ \E id \in Ids :
       \E res \in {read_persona(personas, avatars, id)} :
          Served("get", id, EmptyUpdate, None, res)
    /\ UNCHANGED <<nextId, clock, workers, completed, accountVars>>

\* the client has read the response and may send its next request
Received ==
    /\ last.op # "none"
    /\ last' = NoRequest
    /\ UNCHANGED <<personas, avatars, nextId, clock, workers, completed, accountVars>>

\* time passes between requests
Tick ==
    /\ clock < MaxClock
    /\ clock' = clock + 1
    /\ UNCHANGED <<personas, avatars, nextId, last, workers, completed, accountVars>>

----------------------------------------------------------------------------
(* Accounts: the tables users and author_avatars, the user repository and  *)
(* the register and profile handlers.                                      *)

MaxUsers == 2       \* rows ever inserted into users (ids 1..MaxUsers)

NoTime == -1                        \* SQL NULL of users.updated_at
UserUuid(id) == <<"user", id>>      \* the column default str(uuid.uuid4())
get_password_hash(pw) == <<"hash", pw>>

\* EmailStr: one @ after a non-empty local part, a period inside the domain;
\* the validated value has its domain in lower case (X is the one upper-case
\* letter of the alphabet explored)
Lower(c) == IF c = "X" THEN "x" ELSE c
At(v) == {i \in 1..Len(v) : v[i] = "@"}
EmailValid(v) ==
    /\ v # NULL
    /\ Cardinality(At(v)) = 1
    /\ \E i \in At(v) : i > 1 /\ \E j \in (i + 2)..(Len(v) - 1) : v[j] = "."
EmailStr(v) ==
    [k \in 1..Len(v) |-> IF \E i \in At(v) : i < k THEN Lower(v[k]) ELSE v[k]]

\* a UserUpdate body none of whose fields was sent
EmptyProfile ==
    [fields_set |-> {}, email |-> NULL, username |-> NULL, nickname |-> NULL,
     password |-> NULL, github_id |-> NULL, github_username |-> NULL,
     avatar |-> NULL]

\* UserCreate: email, username and password are required and not null
UserCreateValid(r) == EmailValid(r.email) /\ r.username # NULL /\ r.password # NULL
UserCreateParsed(r) == [r EXCEPT !.email = EmailStr(r.email)]

\* UserUpdate: every field is optional; a sent email that is not null is validated
UserUpdateValid(r) == ("email" \in r.fields_set /\ r.email # NULL) => EmailValid(r.email)
UserUpdateParsed(r) ==
    [r EXCEPT !.email = IF "email" \in r.fields_set /\ r.email # NULL
                        THEN EmailStr(r.email) ELSE r.email]

\* NOT NULL, UNIQUE and FOREIGN KEY constraints of users and author_avatars
UserConstraintsOK(U, AA) ==
    /\ \A u \in U : u.email # NULL /\ u.username # NULL
    /\ \A u, v \in U :
          (\/ u.id = v.id \/ u.uuid = v.uuid \/ u.email = v.email
           \/ u.username = v.username
           \/ (u.github_id # NULL /\ u.github_id = v.github_id)) => u = v
    /\ \A a \in AA : \E u \in U : u.uuid = a.user_uuid
    /\ \A a, b \in AA : a.user_uuid = b.user_uuid => a = b

\* query(User).filter(...).first(): the outcomes are <<>> (None) when no row
\* matches and <<u>> for a matching row u; which of several matching rows
\* comes first is left to the database (there is no ORDER BY)
first(rows) == IF rows = {} THEN {<<>>} ELSE {<<u>> : u \in rows}

get_by_email(U, email) == first({u \in U : u.email = email})
get_by_username(U, username) == first({u \in U : u.username = username})

\* User.github_id == github_id renders as github_id IS NULL for a null argument
GithubIdIs(u, github_id) == u.github_id = github_id
get_by_github_id_or_username(U, github_id, username) ==
    first({u \in U : GithubIdIs(u, github_id) \/ u.username = username})

get_avatar(AA, user_uuid) ==
    IF \E a \in AA : a.user_uuid = user_uuid
    THEN (CHOOSE a \in AA : a.user_uuid = user_uuid).base64
    ELSE NULL

\* CRUDUser.create
NewUser(id, r) ==
    [id |-> id, uuid |-> UserUuid(id), email |-> r.email, username |-> r.username,
     nickname |-> r.nickname,
     hashed_password |-> IF Truthy(r.password) THEN get_password_hash(r.password)
                         ELSE NULL,
     github_id |-> r.github_id, github_username |-> r.github_username,
     updated_at |-> NoTime]

CrudUserCreate(U, AA, id, r) ==
    LET V == U \cup {NewUser(id, r)}
    IN  IF UserConstraintsOK(V, AA)
        THEN Reply(200, V, AA, NewUser(id, r))
        ELSE Reply(500, U, AA, None)

UsernameTakenMutant(U, username) == FALSE
UsernameTaken(U, username) == get_by_username(U, username) # {<<>>}

register_user(U, AA, id, raw) ==
    IF ~UserCreateValid(raw) THEN Reply(422, U, AA, None)
    ELSE LET r == UserCreateParsed(raw)
         IN  IF get_by_email(U, r.email) # {<<>>} THEN Reply(400, U, AA, None)
             ELSE IF UsernameTaken(U, r.username) THEN Reply(400, U, AA, None)
             ELSE CrudUserCreate(U, AA, id, r)

\* CRUDUser.update: the loop of setattr over the keys left in update_data
\* (password, when it stays in update_data, is not an attribute of User)
SetUserAttrs(row, r) ==
    [row EXCEPT
       !.email = IF "email" \in r.fields_set THEN r.email ELSE @,
       !.username = IF "username" \in r.fields_set THEN r.username ELSE @,
       !.nickname = IF "nickname" \in r.fields_set THEN r.nickname ELSE @,
       !.hashed_password = IF "password" \in r.fields_set /\ Truthy(r.password)
                           THEN get_password_hash(r.password) ELSE @,
       !.github_id = IF "github_id" \in r.fields_set THEN r.github_id ELSE @,
       !.github_username = IF "github_username" \in r.fields_set
                           THEN r.github_username ELSE @]

\* the avatar branch of CRUDUser.update: find the record of the user and
\* overwrite its payload, or add one
UpsertAvatarMutant(AA, row, r) ==
    IF "avatar" \in r.fields_set
    THEN {a \in AA : a.user_uuid # row.uuid}
            \cup {[user_uuid |-> row.uuid, base64 |-> r.avatar]}
    ELSE AA
UpsertAvatar(AA, row, r) ==
    IF "avatar" \in r.fields_set /\ Truthy(r.avatar)
    THEN {a \in AA : a.user_uuid # row.uuid}
            \cup {[user_uuid |-> row.uuid, base64 |-> r.avatar]}
    ELSE AA

\* users.updated_at has onupdate=now(): set when the flush updates the row
Touched(row, new, now) == IF new = row THEN row ELSE [new EXCEPT !.updated_at = now]

CrudUserUpdate(U, AA, now, row, r) ==
    LET new == Touched(row, SetUserAttrs(row, r), now)
        V == (U \ {row}) \cup {new}
        BB == UpsertAvatar(AA, row, r)
    IN  IF UserConstraintsOK(V, BB) /\ \A a \in BB : a.base64 # NULL
        THEN Reply(200, V, BB, new)
        ELSE Reply(500, U, AA, None)

update_user_profile(U, AA, now, row, raw) ==
    IF ~UserUpdateValid(raw) THEN Reply(422, U, AA, None)
    ELSE LET r == UserUpdateParsed(raw)
         IN  IF /\ Truthy(r.email) /\ r.email # row.email
                /\ \E f \in get_by_email(U, r.email) : f # <<>> /\ f[1].id # row.id
             THEN Reply(400, U, AA, None)
             ELSE IF /\ Truthy(r.username) /\ r.username # row.username
                     /\ \E f \in get_by_username(U, r.username) :
                           f # <<>> /\ f[1].id # row.id
             THEN Reply(400, U, AA, None)
             ELSE CrudUserUpdate(U, AA, now, row, r)

\* get_user_avatar
get_user_avatar(U, AA, user_uuid) ==
    IF Truthy(get_avatar(AA, user_uuid))
    THEN Reply(200, U, AA, get_avatar(AA, user_uuid))
    ELSE Reply(404, U, AA, None)

ServedAccount(op, id, raw, res) ==
    /\ users' = res.P
    /\ author_avatars' = res.A
    /\ last' = [NoRequest EXCEPT !.op = op, !.id = id, !.req = raw,
                                 !.status = res.status, !.body = res.body,
                                 !.P = users, !.A = author_avatars]

RegisterUser(Inputs) ==
    /\ last.op = "none"
    /\ nextUserId <= MaxUsers
    /\ \E raw \in Inputs :
       \E res \in {register_user(users, author_avatars, nextUserId, raw)} :
          /\ ServedAccount("register", nextUserId, raw, res)
          /\ nextUserId' = IF res.P # users THEN nextUserId + 1 ELSE nextUserId
    /\ UNCHANGED <<personaVars, sessions>>

\* PUT /profile by the authenticated user whose row is row
UpdateUserProfile(Patches) ==
    /\ last.op = "none"
    /\ \E row \in users, raw \in Patches :
       \E res \in {update_user_profile(users, author_avatars, clock, row, raw)} :
          ServedAccount("profile", row.id, raw, res)
    /\ UNCHANGED <<personaVars, nextUserId, sessions>>

GetUserAvatar ==
    /\ last.op = "none"
    /\ \E id \in 1..MaxUsers :
       \E res \in {get_user_avatar(users, author_avatars, UserUuid(id))} :
          ServedAccount("avatar", id, EmptyProfile, res)
    /\ UNCHANGED <<personaVars, nextUserId, sessions>>

\* a caller of the combined lookup; the row it gets is the body of last
LookupUser(GithubIds, Usernames) ==
    /\ last.op = "none"
    /\ \E g \in GithubIds, n \in Usernames :
       \E found \in get_by_github_id_or_username(users, g, n) :
          /\ last' = [NoRequest EXCEPT
                        !.op = "lookup",
                        !.req = [EmptyProfile EXCEPT !.github_id = g, !.username = n],
                        !.items = found, !.P = users, !.A = author_avatars]
          /\ UNCHANGED <<users, author_avatars>>
    /\ UNCHANGED <<personaVars, nextUserId, sessions>>

\* the accounts Alice and Bob that the persona specifications start with
Registered ==
    {NewUser(1, [email |-> <<"a","@","x",".","y">>, username |-> <<"a">>,
                 nickname |-> <<"A">>, password |-> <<"p">>, github_id |-> NULL,
                 github_username |-> NULL]),
     NewUser(2, [email |-> <<"b","@","x",".","y">>, username |-> <<"b">>,
                 nickname |-> NULL, password |-> <<"p">>, github_id |-> NULL,
                 github_username |-> NULL])}

\* a worker with no request: no session acquired, none released
NoScope ==
    [pc |-> "idle", endpoint |-> "none", session_db |-> "none", deps_db |-> "none",
     closed_session_db |-> 0, closed_deps_db |-> 0, error |-> "none"]

InitAccounts ==
    /\ users = Registered
    /\ author_avatars = {}
    /\ nextUserId = 3
    /\ sessions = [w \in Workers |-> NoScope]

Init ==
    /\ personas = {}
    /\ avatars = {}
    /\ nextId = 1
    /\ clock = 0
    /\ last = NoRequest
    /\ workers = [w \in Workers |-> Idle]
    /\ completed = [id \in Ids |-> 0]
    /\ InitAccounts

----------------------------------------------------------------------------
(* Spec: names and avatars.  Requests that set name, avatar and uuid. *)

Alice == <<"user", 1>>
Bob == <<"user", 2>>

Http == <<"h","t","t","p",":","/","/","x">>
Https == <<"h","t","t","p","s",":","/","/","x">>
Payload == <<"i","V">>
HttpLike == <<"h","t","t","p">>       \* an inline payload that begins like a URL
CreateAvatars == {NULL, <<>>, Http, Https, Payload, HttpLike}
PatchAvatars == {NULL, <<>>, Https, Payload, HttpLike}

CreateNames == {<<"a">>, <<"b">>, <<SP, "a">>, <<SP>>}
PatchNames == {<<"a">>, <<"b", SP>>, NULL}
Body == <<"c">>

AvatarCreates ==
    {[NewCreate(n) EXCEPT !.fields_set = {"name", "content"} \cup fs,
                          !.content = Body,
                          !.avatar = IF "avatar" \in fs THEN a ELSE NULL] :
        n \in CreateNames, fs \in SUBSET {"avatar"}, a \in CreateAvatars}

\* uuid values a client may send: null, the uuid of the first row, a fresh one
PatchUuids == {None, Uuid4(1), <<"sent", 1>>}

AvatarPatches ==
    {[EmptyUpdate EXCEPT !.fields_set = fs,
                         !.name = IF "name" \in fs THEN n ELSE NULL,
                         !.avatar = IF "avatar" \in fs THEN a ELSE NULL,
                         !.uuid = IF "uuid" \in fs THEN u ELSE None] :
        fs \in SUBSET {"name", "avatar", "uuid"},
        n \in PatchNames, a \in PatchAvatars, u \in PatchUuids}

Next ==
    \/ CreatePersona(AvatarCreates, {Alice})
    \/ UpdatePersona(AvatarPatches)
    \/ DeletePersona
    \/ ReadPersona
    \/ Received

Spec == Init /\ [][Next]_vars

----------------------------------------------------------------------------
(* SpecViews: the fields the server manages.  Requests that set view_count  *)
(* or uuid, views by the author, by another user and by an anonymous       *)
(* visitor, and time.                                                      *)

\* uuid values a client may send with a create: null or a value of its own
CreateUuids == {None, <<"sent", 1>>}

ViewCreates ==
    {[NewCreate(n) EXCEPT !.fields_set = {"name", "content"} \cup fs,
                          !.content = Body,
                          !.view_count = IF "view_count" \in fs THEN MaxViews ELSE 0,
                          !.uuid = IF "uuid" \in fs THEN u ELSE None] :
        n \in {<<"a">>, <<"b">>}, fs \in SUBSET {"view_count", "uuid"},
        u \in CreateUuids}

ViewPatches ==
    {[EmptyUpdate EXCEPT !.fields_set = {"view_count"}, !.view_count = v] :
        v \in {NoCount, 0}}

NextViews ==
    \/ CreatePersona(ViewCreates, {Alice, Bob})
    \/ UpdatePersona(ViewPatches)
    \/ IncrementView({Anonymous, Alice, Bob})
    \/ DeletePersona
    \/ ReadPersona
    \/ Tick
    \/ Received

SpecViews == Init /\ [][NextViews]_vars

----------------------------------------------------------------------------
(* SpecTags: the tags field.  Requests that set tags. *)

TagInputs ==
    {NULL, <<>>, <<",", SP>>, <<SP, "x", ",", SP, ",", "y", SP>>,
     <<"y", ",", "x", ",", "y">>}

TagCreates ==
    {[NewCreate(n) EXCEPT !.fields_set = {"name", "content"} \cup fs,
                          !.content = Body,
                          !.tags = IF "tags" \in fs THEN t ELSE NULL] :
        n \in {<<"a">>, <<"b">>}, fs \in SUBSET {"tags"}, t \in TagInputs}

TagPatches ==
    {[EmptyUpdate EXCEPT !.fields_set = fs,
                         !.tags = IF "tags" \in fs THEN t ELSE NULL] :
        fs \in SUBSET {"tags"}, t \in TagInputs}

NextTags ==
    \/ CreatePersona(TagCreates, {Alice})
    \/ UpdatePersona(TagPatches)
    \/ ReadPersona
    \/ Received

SpecTags == Init /\ [][NextTags]_vars

\* the non-empty trimmed pieces of a comma-separated text, in its order
RECURSIVE Pieces(_, _)
Pieces(v, cur) ==
    LET done == IF Strip(cur) = <<>> THEN <<>> ELSE <<Strip(cur)>>
    IN  IF v = <<>> THEN done
        ELSE IF Head(v) = "," THEN done \o Pieces(Tail(v), <<>>)
        ELSE Pieces(Tail(v), Append(cur, Head(v)))

\* split on commas, the text has no empty piece and no piece with a
\* leading or trailing blank
Canonical(t) ==
    /\ t # <<>>
    /\ Head(t) \notin Whitespace \cup {","}
    /\ t[Len(t)] \notin Whitespace \cup {","}
    /\ \A i \in 1..(Len(t) - 1) :
          /\ t[i] = "," => t[i + 1] \notin Whitespace \cup {","}
          /\ t[i + 1] = "," => t[i] \notin Whitespace

\* C21: the stored tags of every persona are null or canonical; a create or
\* update that carries tags stores the non-empty trimmed tokens of the
\* input in the input's order, and null when there is none; get answers
\* the stored tags.
C21_TagsCanonical ==
    /\ \A p \in personas : p.tags = NULL \/ Canonical(p.tags)
    /\ (/\ last.op \in {"create", "update"} /\ last.status = 200
        /\ "tags" \in last.req.fields_set)
          => \A p \in RowsById(personas, last.id) :
                LET want == IF last.req.tags = NULL THEN <<>>
                            ELSE Pieces(last.req.tags, <<>>)
                IN  IF want = <<>> THEN p.tags = NULL
                    ELSE p.tags # NULL /\ Pieces(p.tags, <<>>) = want
    /\ (last.op = "get" /\ last.status = 200)
          => \A o \in last.body : \A p \in RowsById(personas, last.id) :
                o.tags = p.tags /\ (o.tags = NULL \/ Canonical(o.tags))

\* a create stored ' x, ,y ' as 'x,y' next to a persona that stores 'y,x,y'
C21_Witness ==
    /\ last.op = "create" /\ last.status = 200
    /\ last.req.tags = <<SP, "x", ",", SP, ",", "y", SP>>
    /\ \E p \in RowsById(personas, last.id) : p.tags = <<"x", ",", "y">>
    /\ \E q \in personas : q.tags = <<"y", ",", "x", ",", "y">>

----------------------------------------------------------------------------
(* SpecUsers: registration, profile updates, the avatar of a user and the  *)
(* combined lookup, one request at a time, starting without any user.      *)

EmailA == <<"a","@","x",".","y">>
EmailB == <<"b","@","x",".","y">>
EmailAX == <<"a","@","X",".","y">>   \* EmailA before normalisation
NotEmail == <<"a">>
GithubG == <<"g">>

UserCreates ==
    [fields_set : {{"email", "username", "password", "github_id"}},
     email : {EmailA, EmailB, EmailAX, NotEmail}, username : {<<>>, <<"a">>, <<"b">>},
     nickname : {NULL}, password : {<<"p">>}, github_id : {NULL, GithubG},
     github_username : {NULL}, avatar : {NULL}]

ProfileAvatars == {NULL, <<>>, <<"p">>, <<"q">>}

UserPatches ==
    {[EmptyProfile EXCEPT !.fields_set = fs,
                          !.email = IF "email" \in fs THEN e ELSE NULL,
                          !.username = IF "username" \in fs THEN n ELSE NULL,
                          !.avatar = IF "avatar" \in fs THEN a ELSE NULL] :
        fs \in SUBSET {"email", "username", "avatar"},
        e \in {EmailB}, n \in {<<>>, <<"b">>}, a \in ProfileAvatars}

InitUsers ==
    /\ personas = {}
    /\ avatars = {}
    /\ nextId = 1
    /\ clock = 0
    /\ last = NoRequest
    /\ workers = [w \in Workers |-> Idle]
    /\ completed = [id \in Ids |-> 0]
    /\ users = {}
    /\ author_avatars = {}
    /\ nextUserId = 1
    /\ sessions = [w \in Workers |-> NoScope]

NextUsers ==
    \/ RegisterUser(UserCreates)
    \/ UpdateUserProfile(UserPatches)
    \/ GetUserAvatar
    \/ LookupUser({NULL, GithubG}, {<<"a">>, <<"b">>})
    \/ Received

SpecUsers == InitUsers /\ [][NextUsers]_vars

\* C22: the combined lookup returns a user that has the given githubId
\* whenever there is one, also when another user has the given username, and
\* a user with the given username only when no user has the githubId
C22_GithubIdPriority ==
    (last.op = "lookup" /\ last.req.github_id # NULL) =>
        LET withId == {u \in last.P : u.github_id = last.req.github_id}
            withName == {u \in last.P : u.username = last.req.username}
        IN  /\ withId # {} => last.items \in {<<u>> : u \in withId}
            /\ withId = {} => last.items \in first(withName)

\* C23: a registration whose email or username an existing user holds is
\* answered with the conflict error and creates no user, and no two users
\* ever share an email or a username
C23_RegisterConflict ==
    /\ (last.op = "register" /\ UserCreateValid(last.req)) =>
          LET held == \E u \in last.P : \/ u.email = EmailStr(last.req.email)
                                        \/ u.username = last.req.username
          IN  /\ held => last.status = 400 /\ users = last.P
              /\ last.status = 400 => held
    /\ \A u, v \in users : (u.email = v.email \/ u.username = v.username) => u = v

\* a registration refused for its username alone, with a fresh email
C23_Witness ==
    /\ last.op = "register" /\ last.status = 400
    /\ \E u \in last.P : u.username = last.req.username
    /\ \A u \in last.P : u.email # EmailStr(last.req.email)

\* the AuthorAvatar records of a user
AuthorAvatars(AA, id) == {a \in AA : a.user_uuid = UserUuid(id)}

\* C24: a user has at most one AuthorAvatar record; a profile update with a
\* non-empty avatar leaves exactly one record holding that payload, one
\* without an avatar key or with an empty avatar leaves the records as they
\* were, and the avatar lookup answers the payload of the record, or not
\* found when there is none
C24_AvatarUpsert ==
    /\ \A id \in 1..MaxUsers : Cardinality(AuthorAvatars(author_avatars, id)) <= 1
    /\ last.op = "profile" =>
          /\ \A id \in 1..MaxUsers \ {last.id} :
                AuthorAvatars(author_avatars, id) = AuthorAvatars(last.A, id)
          /\ AuthorAvatars(author_avatars, last.id) =
                IF /\ last.status = 200
                   /\ "avatar" \in last.req.fields_set /\ Truthy(last.req.avatar)
                THEN {[user_uuid |-> UserUuid(last.id), base64 |-> last.req.avatar]}
                ELSE AuthorAvatars(last.A, last.id)
    /\ last.op = "avatar" =>
          /\ author_avatars = last.A
          /\ IF AuthorAvatars(last.A, last.id) = {}
             THEN last.status = 404
             ELSE /\ last.status = 200
                  /\ \E a \in AuthorAvatars(last.A, last.id) : last.body = a.base64

\* the second upload of a user replaced the payload of their record
C24_Witness ==
    /\ last.op = "profile" /\ last.status = 200
    /\ last.req.avatar = <<"q">>
    /\ AuthorAvatars(last.A, last.id) = {[user_uuid |-> UserUuid(last.id), base64 |-> <<"p">>]}
    /\ AuthorAvatars(author_avatars, last.id) = {[user_uuid |-> UserUuid(last.id), base64 |-> <<"q">>]}

----------------------------------------------------------------------------
(* SpecAuthors: the author of a persona.  Requests that carry author_uuid, *)
(* by the two registered users and by anonymous viewers.                   *)

Ghost == <<"user", 3>>      \* a uuid no user has

AuthorCreates ==
    {[NewCreate(n) EXCEPT !.fields_set = {"name", "content"} \cup fs,
                          !.content = Body,
                          !.author_uuid = IF "author_uuid" \in fs THEN u ELSE None] :
        n \in {<<"a">>, <<"b">>}, fs \in SUBSET {"author_uuid"}, u \in {Bob, Ghost}}

AuthorPatches ==
    {[EmptyUpdate EXCEPT !.fields_set = fs,
                         !.name = IF "name" \in fs THEN <<"b">> ELSE NULL,
                         !.author_uuid = IF "author_uuid" \in fs THEN u ELSE None] :
        fs \in SUBSET {"name", "author_uuid"}, u \in {None, Alice, Bob, Ghost}}

NextAuthors ==
    \/ CreatePersona(AuthorCreates, {Alice, Bob})
    \/ UpdatePersona(AuthorPatches)
    \/ IncrementView({Anonymous, Alice, Bob})
    \/ DeletePersona
    \/ Received

SpecAuthors == Init /\ [][NextAuthors]_vars

----------------------------------------------------------------------------
(* Properties of the sequential specifications *)

\* the row a request addressed, before and after it
Before(id) == RowsById(last.P, id)
After(id) == RowsById(personas, id)

\* C1: no persona has both a non-null avatar URL field and an inline
\* PersonaAvatar record, in any state reached by create, update and remove
\* requests with any avatar value.
C1_AvatarExclusive ==
    \A p \in personas : ~(p.avatar # NULL /\ avatar_rel(avatars, p) # {})

\* an update wrote an avatar while one persona holds a URL and another an
\* inline record
C1_Witness ==
    /\ last.op = "update" /\ last.status = 200 /\ "avatar" \in last.req.fields_set
    /\ \E p, q \in personas :
          /\ p.avatar = Https /\ avatar_rel(avatars, p) = {}
          /\ q.avatar = NULL /\ avatar_rel(avatars, q) # {}

\* C2: with requests served one at a time, a create whose trimmed name is the
\* name of a stored persona, and an update that sets the name of a different
\* stored persona, answer 400 and leave both tables as they were; an update
\* to the persona's own current name is not answered 400.
C2_NameConflict ==
    /\ (/\ last.op = "create"
        /\ last.req.name # NULL
        /\ \E q \in last.P : q.name = Strip(last.req.name))
          => (last.status = 400 /\ personas = last.P /\ avatars = last.A)
    /\ (/\ last.op = "update"
        /\ "name" \in last.req.fields_set /\ last.req.name # NULL
        /\ Before(last.id) # {}
        /\ \E q \in last.P : q.name = Strip(last.req.name) /\ q.id # last.id)
          => (last.status = 400 /\ personas = last.P /\ avatars = last.A)
    /\ (/\ last.op = "update"
        /\ "name" \in last.req.fields_set /\ last.req.name # NULL
        /\ \E p \in Before(last.id) : p.name = Strip(last.req.name))
          => last.status # 400

\* a create was refused because its name, once trimmed, was taken
C2_Witness ==
    /\ last.op = "create" /\ last.status = 400 /\ last.req.name = <<SP, "a">>
    /\ \E q \in personas : q.name = <<"a">>
    /\ personas = last.P

InlineValues == {Payload, HttpLike}     \* non-empty, not matching ^https?://
RemoteValues == {Http, Https}           \* matching ^https?://

\* C9: a successful update whose avatar is an inline payload p, on a persona
\* whose avatar is a URL, leaves the avatar URL field null and exactly one
\* inline record, holding p, and a get then shows p as the avatar.
C9_UrlToInline ==
    (/\ last.op = "update" /\ last.status = 200
     /\ "avatar" \in last.req.fields_set /\ last.req.avatar \in InlineValues
     /\ \E b \in Before(last.id) : b.avatar \in RemoteValues)
      => \A p \in After(last.id) :
            /\ After(last.id) = {p}
            /\ p.avatar = NULL
            /\ avatar_rel(avatars, p) = {NewAvatar(p.uuid, last.req.avatar)}
            /\ \A o \in read_persona(personas, avatars, last.id).body :
                  o.avatar = last.req.avatar
            /\ read_persona(personas, avatars, last.id).status = 200

C9_Witness ==
    /\ last.op = "update" /\ last.status = 200
    /\ last.req.avatar = HttpLike
    /\ \E b \in Before(last.id) : b.avatar = Https /\ avatar_rel(last.A, b) = {}
    /\ \E p \in After(last.id) : EffectiveAvatar(avatars, p) = HttpLike

\* C10: a successful update whose avatar is a remote reference, on a persona
\* that has an inline record, sets the avatar URL field to that URL and
\* deletes the record: no record of the persona is left and the effective
\* avatar is the URL.
C10_InlineToUrl ==
    (/\ last.op = "update" /\ last.status = 200
     /\ "avatar" \in last.req.fields_set /\ last.req.avatar \in RemoteValues
     /\ \E b \in Before(last.id) : avatar_rel(last.A, b) # {})
      => \A p \in After(last.id) :
            /\ After(last.id) = {p}
            /\ p.avatar = last.req.avatar
            /\ avatar_rel(avatars, p) = {}
            /\ \A b \in Before(last.id) : avatar_rel(avatars, b) = {}
            /\ EffectiveAvatar(avatars, p) = last.req.avatar

C10_Witness ==
    /\ last.op = "update" /\ last.status = 200
    /\ last.req.avatar = Https
    /\ \E b \in Before(last.id) : avatar_rel(last.A, b) = {NewAvatar(b.uuid, Payload)}
    /\ \E p \in After(last.id) : p.avatar = Https /\ avatar_rel(avatars, p) = {}

\* the avatar records of the rows other than the given ones
OtherAvatars(A, rows) == {a \in A : \A p \in rows : a.persona_uuid # p.uuid}

C12_EffectiveAvatar ==
    (last.status = 200 /\ last.op \in {"create", "update", "get", "remove"})
      => \A o \in last.body :
            LET P == IF last.op = "remove" THEN last.P ELSE personas
                A == IF last.op = "remove" THEN last.A ELSE avatars
            IN  /\ \E p \in RowsById(P, o.id) :
                      IF avatar_rel(A, p) # {}
                      THEN \A a \in avatar_rel(A, p) : o.avatar = a.base64
                      ELSE o.avatar = p.avatar
                /\ (/\ last.op = "create" /\ "avatar" \in last.req.fields_set
                    /\ last.req.avatar \in InlineValues \cup RemoteValues)
                      => o.avatar = last.req.avatar

\* a persona was created with an inline payload that begins like a URL and
\* the response shows the payload, while the URL field is null
C12_Witness ==
    /\ last.op = "create" /\ last.status = 200 /\ last.req.avatar = HttpLike
    /\ \E o \in last.body : o.avatar = HttpLike
    /\ \E p \in After(last.id) : p.avatar = NULL /\ avatar_rel(avatars, p) # {}

\* C13 as stated: the uuid of a created persona is generated by the server
\* and never taken from the request: whatever uuid value the create request
\* carries, the stored uuid is the generated one.
C13_UuidGenerated ==
    (last.op = "create" /\ last.status = 200)
      => \A p \in personas \ last.P : p.uuid = Uuid4(p.id)

\* C15: update (with a valid patch), remove, incrementView and get on an id
\* that no stored persona has answer 404 and leave the personas, with their
\* view counts, and the avatar records as they were.
C15_NotFound ==
    (/\ last.op \in {"update", "remove", "view", "get"}
     /\ Before(last.id) = {}
     /\ last.op = "update" => UpdateValid(last.req))
      => /\ last.status = 404
         /\ personas = last.P
         /\ avatars = last.A

\* a view was asked of a persona that had been removed, while another
\* persona, viewed before, is stored
C15_Witness ==
    /\ last.op = "view" /\ last.status = 404 /\ last.id < nextId
    /\ \E q \in personas : q.view_count = 1

C4_ViewExact ==
    (last.op = "view" /\ Before(last.id) # {})
      => \A b \in Before(last.id) :
            IF last.user = b.author_uuid
            THEN \A p \in After(last.id) : p.view_count = b.view_count
            ELSE personas = (last.P \ {b})
                               \cup {[b EXCEPT !.view_count = Incremented(b)]}

\* C4 as amended: a view by the author changes nothing; any other view sets
\* viewCount to its previous value plus 1, a null count taken as 0, and
\* changes nothing else but that persona's update_time, which does not go back.
C4_ViewCounted ==
    (last.op = "view" /\ Before(last.id) # {})
      => \A b \in Before(last.id) :
            IF last.user = b.author_uuid
            THEN personas = last.P /\ avatars = last.A
            ELSE /\ avatars = last.A
                 /\ \E p \in After(last.id) :
                       /\ p.update_time >= b.update_time
                       /\ personas = (last.P \ {b}) \cup
                            {[b EXCEPT !.view_count =
                                          IF b.view_count = NoCount THEN 1 ELSE @ + 1,
                                       !.update_time = p.update_time]}

\* another user viewed a persona a second time, next to a second persona,
\* at a later clock reading than its last write
C4_Witness ==
    /\ last.op = "view" /\ last.status = 200 /\ last.user = Bob
    /\ Cardinality(personas) = 2
    /\ \E b \in Before(last.id), p \in After(last.id) :
          /\ b.author_uuid = Alice
          /\ b.view_count = 1 /\ p.view_count = 2
          /\ b.update_time = 0 /\ p.update_time = 1

\* C6 as stated: a created persona has viewCount 0, and no create, update or
\* view makes the stored viewCount of an existing persona smaller.
C6_ViewCountMonotone ==
    /\ (last.op = "create" /\ last.status = 200)
          => \A p \in personas \ last.P : p.view_count = 0
    /\ \A b \in last.P : \A p \in RowsById(personas, b.id) :
          p.view_count >= b.view_count

\* C25: every stored persona's author_uuid is the uuid of an existing user,
\* whatever author_uuid the creates and the patches carry
C25_AuthorExists ==
    \A p \in personas : \E u \in users : u.uuid = p.author_uuid

\* a patch whose author_uuid no user has was refused and changed nothing
C25_Witness ==
    /\ last.op = "update" /\ last.status = 500
    /\ "author_uuid" \in last.req.fields_set /\ last.req.author_uuid = Ghost
    /\ Before(last.id) # {} /\ personas = last.P

\* C27: a create stores the uuid of the authenticated caller as author_uuid,
\* whatever the input carries, and no update or view changes the
\* author_uuid of a persona
C27_AuthorFixed ==
    /\ (last.op = "create" /\ last.status = 200)
          => \A p \in After(last.id) : p.author_uuid = last.user
    /\ last.op \in {"update", "view"}
          => \A b \in last.P : \A p \in RowsById(personas, b.id) :
                p.author_uuid = b.author_uuid

\* C28: every PersonaAvatar record belongs to an existing persona, no
\* persona has two of them, and a remove leaves no record of the persona
\* it removed
C28_AvatarsOwned ==
    /\ \A a \in avatars : \E p \in personas : p.uuid = a.persona_uuid
    /\ \A p \in personas : Cardinality(avatar_rel(avatars, p)) <= 1
    /\ (last.op = "remove" /\ Before(last.id) # {})
          => /\ After(last.id) = {}
             /\ \A b \in Before(last.id) : avatar_rel(avatars, b) = {}

\* a persona that had an inline avatar record was removed together with it
C28_Witness ==
    /\ last.op = "remove" /\ last.status = 200
    /\ \E b \in Before(last.id) : avatar_rel(last.A, b) # {}
    /\ After(last.id) = {} /\ avatars = {}

----------------------------------------------------------------------------
(* SpecConc: requests served by concurrent worker threads, each with its   *)
(* own session.  A handler is cut at its database round trips: what it     *)
(* read stays in the worker (seen) until its commit.  Sessions share       *)
(* nothing; the tables are the committed state of the database.            *)

\* the worker answers and is free again; last is the response just sent
Finished(w, op, id, status) ==
    /\ workers' = [workers EXCEPT ![w] = Idle]
    /\ last' = [NoRequest EXCEPT !.op = op, !.id = id, !.status = status]

\* the worker goes on to its next round trip
Continues(w, rec) ==
    /\ workers' = [workers EXCEPT ![w] = rec]
    /\ UNCHANGED last

Ready(w) == workers[w].pc = "idle"

InFlight(pc) == Cardinality({w \in Workers : workers[w].pc = pc})

\* create_persona up to the name check: db.query(Persona).filter(name).first()
ConcCreateCheck(Inputs, Callers) ==
    \E w \in Workers, raw \in Inputs, user \in Callers :
        /\ Ready(w)
        /\ nextId + InFlight("create_insert") <= MaxPersonas
        /\ IF ~CreateValid(raw) THEN Finished(w, "create", 0, 422)
              ELSE IF RowsByName(personas, CreateParsed(raw).name) # {}
              THEN Finished(w, "create", 0, 400)
              ELSE Continues(w,
                       [Idle EXCEPT !.pc = "create_insert", !.op = "create",
                                    !.user = user,
                                    !.req = [CreateParsed(raw) EXCEPT
                                               !.author_uuid = user,
                                               !.fields_set = @ \cup {"author_uuid"}]])
        /\ UNCHANGED <<personas, avatars, nextId, clock, completed, accountVars>>

\* CRUDPersona.create, first commit: the personas row
ConcCreateInsert ==
    \E w \in Workers :
        /\ workers[w].pc = "create_insert"
        /\ \E row \in {NewRow(nextId, clock, workers[w].req)} :
              IF ~ConstraintsOK(personas \cup {row}, avatars)
              THEN /\ Finished(w, "create", 0, 500)
                   /\ UNCHANGED <<personas, nextId>>
              ELSE /\ personas' = personas \cup {row}
                   /\ nextId' = nextId + 1
                   /\ IF IsInline(workers[w].req.avatar)
                      THEN Continues(w, [workers[w] EXCEPT !.pc = "create_avatar",
                                                           !.id = row.id,
                                                           !.seen = {row}])
                      ELSE Finished(w, "create", row.id,
                                    IF ResponseValid(row) THEN 200 ELSE 500)
        /\ UNCHANGED <<avatars, clock, completed, accountVars>>

\* CRUDPersona.create, second commit: the inline avatar record
ConcCreateAvatar ==
    \E w \in Workers :
        /\ workers[w].pc = "create_avatar"
        /\ \E row \in workers[w].seen :
           \E A1 \in {avatars \cup {NewAvatar(row.uuid, workers[w].req.avatar)}} :
              IF ~ConstraintsOK(personas, A1)
              THEN /\ Finished(w, "create", row.id, 500)
                   /\ UNCHANGED avatars
              ELSE /\ avatars' = A1
                   /\ Finished(w, "create", row.id,
                                          IF ResponseValid(row) THEN 200 ELSE 500)
        /\ UNCHANGED <<personas, nextId, clock, completed, accountVars>>

\* update_persona up to the name check: crud_persona.get and the name query
ConcUpdateRead(Patches) ==
    \E w \in Workers, id \in Ids, raw \in Patches :
        /\ Ready(w)
        /\ IF ~UpdateValid(raw) THEN Finished(w, "update", id, 422)
              ELSE IF RowsById(personas, id) = {} THEN Finished(w, "update", id, 404)
              ELSE LET row == CHOOSE p \in RowsById(personas, id) : TRUE
                   IN  IF NameTaken(personas, id, UpdateParsed(raw), row)
                       THEN Finished(w, "update", id, 400)
                       ELSE Continues(w,
                                [Idle EXCEPT !.pc = "update_commit", !.op = "update",
                                             !.id = id, !.req = UpdateParsed(raw),
                                             !.seen = {row}])
        /\ UNCHANGED <<personas, avatars, nextId, clock, completed, accountVars>>

\* the UPDATE the session flushes: the columns whose value setattr changed on
\* the loaded object, WHERE id = the loaded id
FlushedRow(cur, seen, r, now) ==
    LET Changed == {c \in r.fields_set \ {"avatar"} : r[c] # seen[c]}
        Value(c) == IF c \in Changed THEN r[c] ELSE cur[c]
    IN  IF Changed = {} THEN cur
        ELSE [id |-> cur.id,
              uuid |-> Value("uuid"),
              view_count |-> Value("view_count"),
              name |-> Value("name"),
              avatar |-> cur.avatar,
              content |-> Value("content"),
              description |-> Value("description"),
              tags |-> Value("tags"),
              author_uuid |-> Value("author_uuid"),
              update_time |-> now]

\* CRUDPersona.update of a patch without avatar: setattr, commit, refresh
ConcUpdateCommit ==
    \E w \in Workers :
        /\ workers[w].pc = "update_commit"
        /\ LET id == workers[w].id
           IN  IF RowsById(personas, id) = {}
               THEN /\ Finished(w, "update", id, 500)
                    /\ UNCHANGED personas
               ELSE \E cur \in RowsById(personas, id), seen \in workers[w].seen :
                    \E row1 \in {FlushedRow(cur, seen, workers[w].req, clock)} :
                    \E P1 \in {(personas \ {cur}) \cup {row1}} :
                       IF ~ConstraintsOK(P1, avatars)
                       THEN /\ Finished(w, "update", id, 500)
                            /\ UNCHANGED personas
                       ELSE /\ personas' = P1
                            /\ Finished(w, "update", id,
                                              IF ResponseValid(row1) THEN 200 ELSE 500)
        /\ UNCHANGED <<avatars, nextId, clock, completed, accountVars>>

\* increment_persona_view up to the assignment: crud_persona.get and is_author
ConcViewRead(Viewers) ==
    \E w \in Workers, id \in Ids, viewer \in Viewers :
        /\ Ready(w)
        /\ completed[id] + InFlight("view_commit") < MaxViews
        /\ IF RowsById(personas, id) = {} THEN Finished(w, "view", id, 404)
              ELSE LET row == CHOOSE p \in RowsById(personas, id) : TRUE
                   IN  IF IsAuthor(row, viewer)
                       THEN Finished(w, "view", id,
                                     IF ResponseValid(row) THEN 200 ELSE 500)
                       ELSE Continues(w,
                                [Idle EXCEPT !.pc = "view_commit", !.op = "view",
                                             !.id = id, !.user = viewer,
                                             !.seen = {row}])
        /\ UNCHANGED <<personas, avatars, nextId, clock, completed, accountVars>>

\* persona.view_count = (persona.view_count or 0) + 1; db.commit(): the
\* UPDATE writes the value computed from the row as this session read it
ConcViewCommit ==
    \E w \in Workers :
        /\ workers[w].pc = "view_commit"
        /\ LET id == workers[w].id
           IN  IF RowsById(personas, id) = {}
               THEN /\ Finished(w, "view", id, 500)
                    /\ UNCHANGED <<personas, completed>>
               ELSE \E cur \in RowsById(personas, id), seen \in workers[w].seen :
                       /\ personas' = (personas \ {cur}) \cup
                             {[cur EXCEPT !.view_count = Incremented(seen),
                                          !.update_time = clock]}
                       /\ completed' = [completed EXCEPT ![id] = @ + 1]
                       /\ Finished(w, "view", id, 200)
        /\ UNCHANGED <<avatars, nextId, clock, accountVars>>

ConcCreates ==
    {[NewCreate(n) EXCEPT !.fields_set = {"name", "content"} \cup fs,
                          !.content = Body,
                          !.avatar = IF "avatar" \in fs THEN Payload ELSE NULL] :
        n \in {<<"a">>, <<"b">>}, fs \in SUBSET {"avatar"}}

ConcPatches ==
    {[EmptyUpdate EXCEPT !.fields_set = {"name"}, !.name = n] :
        n \in {<<"b">>}}

NextConc ==
    \/ ConcCreateCheck(ConcCreates, {Alice})
    \/ ConcCreateInsert
    \/ ConcCreateAvatar
    \/ ConcUpdateRead(ConcPatches)
    \/ ConcUpdateCommit
    \/ ConcViewRead({Anonymous, Alice})
    \/ ConcViewCommit

SpecConc == Init /\ [][NextConc]_vars

\* C3 as stated: persona names are unique in every reachable state, also
\* when create and update requests interleave: of two concurrent requests for
\* one name at most one ends up owning it.
C3_NamesUnique ==
    \A p, q \in personas : p.name = q.name => p = q

\* C14 as stated: a create that carries an inline avatar persists the row
\* and the record together or neither: no committed state holds the row of
\* such a create without its record.
C14_CreateAtomic ==
    \A w \in Workers :
        (workers[w].op = "create" /\ IsInline(workers[w].req.avatar))
          => \A row \in workers[w].seen :
                row \in personas => avatar_rel(avatars, row) # {}

\* C5 as stated: view increments are atomic: once the view requests on a
\* persona have all completed, its viewCount is higher than at creation by
\* the number of those that were counted (no lost update).
C5_NoLostViews ==
    \A p \in personas :
        (\A w \in Workers : ~(workers[w].pc = "view_commit" /\ workers[w].id = p.id))
            => p.view_count = completed[p.id]

----------------------------------------------------------------------------
(* SpecRemove: interleaved creates and removes.                            *)

\* the remove request of worker w is answered; last keeps the tables as they
\* were committed when the answer was computed
Removed(w, id, status) ==
    /\ workers' = [workers EXCEPT ![w] = Idle]
    /\ last' = [NoRequest EXCEPT !.op = "remove", !.id = id, !.status = status,
                                 !.P = personas, !.A = avatars]

\* delete_persona up to the 404: crud_persona.get
ConcRemoveRead ==
    \E w \in Workers, id \in Ids :
        /\ Ready(w)
        /\ IF RowsById(personas, id) = {} THEN Removed(w, id, 404)
              ELSE Continues(w, [Idle EXCEPT !.pc = "remove_commit", !.op = "remove",
                                             !.id = id, !.seen = RowsById(personas, id)])
        /\ UNCHANGED <<personas, avatars, nextId, clock, completed, accountVars>>

\* the outcomes of CRUDPersona.remove for a session whose row another session
\* has deleted since crud_persona.get: 200 when the query still returns the
\* row (the snapshot of a REPEATABLE READ transaction, or a delete committed
\* after the query) and the DELETE matches no row, which the ORM only warns
\* about; 500 when the query returns None and from_db(None) raises
StaleRemoveOutcomes == {200, 500}

\* CRUDPersona.remove and the response: the DELETE of the avatar record and
\* of the row, the commit, from_db of the deleted object
ConcRemoveCommit ==
    \E w \in Workers :
        /\ workers[w].pc = "remove_commit"
        /\ LET id == workers[w].id
           IN  IF RowsById(personas, id) = {}
               THEN /\ \E status \in StaleRemoveOutcomes : Removed(w, id, status)
                    /\ UNCHANGED <<personas, avatars>>
               ELSE \E cur \in RowsById(personas, id) :
                       /\ personas' = personas \ {cur}
                       /\ avatars' = avatars \ avatar_rel(avatars, cur)
                       /\ Removed(w, id, IF ResponseValid(cur) THEN 200 ELSE 500)
        /\ UNCHANGED <<nextId, clock, completed, accountVars>>

NextRemove ==
    \/ ConcCreateCheck(ConcCreates, {Alice})
    \/ ConcCreateInsert
    \/ ConcCreateAvatar
    \/ ConcRemoveRead
    \/ ConcRemoveCommit

SpecRemove == Init /\ [][NextRemove]_vars

\* C29 as stated: of two interleaved removes of one persona one answers the
\* deleted snapshot and the other not found, and nothing else: a remove
\* answers 200 exactly when it deleted the persona and 404 otherwise.
C29_RemoveOnce ==
    last.op = "remove"
      => \/ /\ last.status = 200
            /\ RowsById(last.P, last.id) # {} /\ RowsById(personas, last.id) = {}
         \/ /\ last.status = 404
            /\ RowsById(last.P, last.id) = {}

----------------------------------------------------------------------------
(* SpecSessions: the database sessions of a request.  A handler of         *)
(* endpoints/personas.py takes its session from get_db of db/session.py;   *)
(* when it also depends on get_current_user or get_current_user_optional   *)
(* of api/deps.py, that dependency takes a session of its own from get_db  *)
(* of api/deps.py.  The framework resolves the dependencies in parameter   *)
(* order, calls the handler and then unwinds the generators, last first.   *)

\* the handlers explored: one without and one with a current-user dependency
Endpoints == {"read_persona", "create_persona"}
NeedsUser(endpoint) == endpoint = "create_persona"

Scope(w) == sessions[w]
Step(w, rec) ==
    /\ sessions' = [sessions EXCEPT ![w] = rec]
    /\ UNCHANGED <<personaVars, last, users, author_avatars, nextUserId>>

RequestArrives(w) ==
    /\ Scope(w).pc = "idle"
    /\ \E e \in Endpoints : Step(w, [NoScope EXCEPT !.pc = "session_get_db", !.endpoint = e])

\* get_db of db/session.py: db = SessionLocal() before the try, so a failure
\* leaves the generator with the failure itself
SessionGetDb(w) ==
    /\ Scope(w).pc = "session_get_db"
    /\ \/ Step(w, [Scope(w) EXCEPT !.session_db = "open",
                                    !.pc = IF NeedsUser(Scope(w).endpoint)
                                           THEN "deps_get_db" ELSE "handler"])
       \/ Step(w, [Scope(w) EXCEPT !.error = "acquire", !.pc = "exit"])

\* get_db of api/deps.py: db = SessionLocal() inside the try, so a failure
\* runs the finally clause, where db.close() finds db unbound
DepsGetDb(w) ==
    /\ Scope(w).pc = "deps_get_db"
    /\ \/ Step(w, [Scope(w) EXCEPT !.deps_db = "open", !.pc = "current_user"])
       \/ Step(w, [Scope(w) EXCEPT !.error = "UnboundLocalError", !.pc = "exit"])

\* get_current_user: the user of the token, or 401
GetCurrentUser(w) ==
    /\ Scope(w).pc = "current_user"
    /\ \/ Step(w, [Scope(w) EXCEPT !.pc = "handler"])
       \/ Step(w, [Scope(w) EXCEPT !.error = "401", !.pc = "exit"])

\* the handler returns or raises
Handler(w) ==
    /\ Scope(w).pc = "handler"
    /\ \/ Step(w, [Scope(w) EXCEPT !.pc = "exit"])
       \/ Step(w, [Scope(w) EXCEPT !.error = "handler", !.pc = "exit"])

\* the finally clause of get_db of api/deps.py
DepsClose(w) ==
    /\ Scope(w).pc = "exit" /\ Scope(w).deps_db = "open"
    /\ Step(w, [Scope(w) EXCEPT !.deps_db = "closed", !.closed_deps_db = @ + 1])

\* the finally clause of get_db of db/session.py
SessionClose(w) ==
    /\ Scope(w).pc = "exit" /\ Scope(w).deps_db # "open" /\ Scope(w).session_db = "open"
    /\ Step(w, [Scope(w) EXCEPT !.session_db = "closed", !.closed_session_db = @ + 1])

\* the generators are unwound: the response, or the error, leaves the server
Responds(w) ==
    /\ Scope(w).pc = "exit" /\ Scope(w).deps_db # "open" /\ Scope(w).session_db # "open"
    /\ Step(w, [Scope(w) EXCEPT !.pc = "done"])

\* the worker is free for its next request
Released(w) ==
    /\ Scope(w).pc = "done"
    /\ Step(w, NoScope)

\* what the server does on its own once a request has arrived
Proceeds(w) ==
    \/ SessionGetDb(w) \/ DepsGetDb(w) \/ GetCurrentUser(w) \/ Handler(w)
    \/ DepsClose(w) \/ SessionClose(w) \/ Responds(w) \/ Released(w)

NextSessions ==
    \E w \in Workers :
        \/ RequestArrives(w)
        \/ SessionGetDb(w)
        \/ DepsGetDb(w)
        \/ GetCurrentUser(w)
        \/ Handler(w)
        \/ DepsClose(w)
        \/ SessionClose(w)
        \/ Responds(w)
        \/ Released(w)

SpecSessions == Init /\ [][NextSessions]_vars

\* the framework runs a request it has accepted to its end: dependency
\* resolution, the handler and the unwinding are never abandoned
FairSessions == SpecSessions /\ \A w \in Workers : WF_vars(Proceeds(w))

\* the sessions a request has acquired so far
Acquired(w) ==
    (IF Scope(w).session_db # "none" THEN 1 ELSE 0)
      + (IF Scope(w).deps_db # "none" THEN 1 ELSE 0)

\* every session a request acquired is closed once when the request is done,
\* and never more than once
ReleasedOnce ==
    \A w \in Workers :
        /\ Scope(w).closed_session_db <= 1 /\ Scope(w).closed_deps_db <= 1
        /\ Scope(w).pc = "done"
              => /\ Scope(w).closed_session_db = (IF Scope(w).session_db = "none" THEN 0 ELSE 1)
                 /\ Scope(w).closed_deps_db = (IF Scope(w).deps_db = "none" THEN 0 ELSE 1)
                 /\ Scope(w).session_db # "open" /\ Scope(w).deps_db # "open"

\* an open session is eventually closed
EventuallyReleased ==
    \A w \in Workers :
        /\ (Scope(w).session_db = "open") ~> (Scope(w).session_db = "closed")
        /\ (Scope(w).deps_db = "open") ~> (Scope(w).deps_db = "closed")

\* the part of C30 the code keeps: on every exit path each acquired session
\* is eventually released, exactly once
SessionsReleased == []ReleasedOnce /\ EventuallyReleased

\* C30 as stated: a request acquires at most one session, every acquired
\* session is eventually released exactly once on every exit path, and a
\* failure while acquiring surfaces as that failure, not as an error of the
\* release step.
C30_SessionScope ==
    /\ [](\A w \in Workers : Acquired(w) <= 1 /\ Scope(w).error # "UnboundLocalError")
    /\ SessionsReleased

----------------------------------------------------------------------------
(* Queries: search, the plain page and the page of one author *)

MaxSkip == 2        \* offsets explored: 0..MaxSkip
MaxLimit == 2       \* page sizes explored: 1..MaxLimit

\* SQL LIKE: % matches any run of characters, _ any single character; the
\* alphabet has no escape character and one letter case
RECURSIVE Like(_, _)
Like(s, pat) ==
    IF pat = <<>> THEN s = <<>>
    ELSE IF Head(pat) = "%"
         THEN Like(s, Tail(pat)) \/ (s # <<>> /\ Like(Tail(s), pat))
    ELSE IF Head(pat) = "_"
         THEN s # <<>> /\ Like(Tail(s), Tail(pat))
    ELSE s # <<>> /\ Head(s) = Head(pat) /\ Like(Tail(s), Tail(pat))

\* column.like(f"%{x}%"): NULL LIKE ... is not true
ColumnLike(col, x) == col # NULL /\ Like(col, <<"%">> \o x \o <<"%">>)

\* the filters CRUDPersona.search adds to the query
KeywordFilter(p, q) ==
    Truthy(q.keyword)
      => \/ ColumnLike(p.name, q.keyword)
         \/ ColumnLike(p.description, q.keyword)
         \/ ColumnLike(p.content, q.keyword)

TagsFilter(p, q) ==
    Truthy(q.tags)
      => \A i \in DOMAIN TagTokens(q.tags) : ColumnLike(p.tags, TagTokens(q.tags)[i])

AuthorFilter(p, q) ==
    q.author_uuid # None => p.author_uuid = q.author_uuid

SearchFilter(P, q) ==
    {p \in P : KeywordFilter(p, q) /\ TagsFilter(p, q) /\ AuthorFilter(p, q)}

\* the orders in which the database may return the rows of a query that has
\* no ORDER BY
Orders(S) ==
    {o \in [1..Cardinality(S) -> S] : \A i, j \in DOMAIN o : o[i] = o[j] => i = j}

\* .offset(skip).limit(limit).all() on the rows in the order the database
\* returns them
Page(rows, skip, limit) ==
    SubSeq(rows, skip + 1, IF skip + limit <= Len(rows) THEN skip + limit ELSE Len(rows))

\* query.count() of CRUDPersona.search: the count of the filtered query
SearchTotalMutant(P, q) == Cardinality(P)
SearchTotal(P, q) == Cardinality(SearchFilter(P, q))

Answered(op, q, A, rows, total) ==
    /\ last' = [NoRequest EXCEPT !.op = op, !.query = q, !.status = 200,
                                 !.items = [i \in DOMAIN Page(rows, q.skip, q.limit) |->
                                               from_db(A, Page(rows, q.skip, q.limit)[i])],
                                 !.total = total,
                                 !.P = personas, !.A = avatars]
    /\ UNCHANGED <<personas, avatars, nextId, clock, workers, completed, accountVars>>

\* search_personas and CRUDPersona.search
SearchPersonas(Queries) ==
    /\ last.op = "none"
    /\ \E q \in Queries :
       \E rows \in Orders(SearchFilter(personas, q)) :
          Answered("search", q, avatars, rows, SearchTotal(personas, q))

\* read_personas: CRUDPersona.get_multi and db.query(Persona).count()
ListPersonas ==
    /\ last.op = "none"
    /\ \E skip \in 0..MaxSkip, limit \in 1..MaxLimit :
       \E rows \in Orders(personas) :
          Answered("list", [NoQuery EXCEPT !.skip = skip, !.limit = limit],
                   avatars, rows, Cardinality(personas))

\* CRUDPersona.get_by_tags: one LIKE filter for each non-empty stripped token
\* of tags, which is the path parameter and never null
get_by_tagsMutant(P, tags) ==
    {p \in P : \A i \in DOMAIN Split(tags, <<>>) : ColumnLike(p.tags, Split(tags, <<>>)[i])}
get_by_tags(P, tags) ==
    {p \in P : \A i \in DOMAIN TagTokens(tags) : ColumnLike(p.tags, TagTokens(tags)[i])}

\* get_personas_by_tags: the page of CRUDPersona.get_by_tags, without a total
ListByTags(TagValues) ==
    /\ last.op = "none"
    /\ \E tags \in TagValues, skip \in 0..MaxSkip, limit \in 1..MaxLimit :
       \E rows \in Orders(get_by_tags(personas, tags)) :
          Answered("by_tags", [NoQuery EXCEPT !.tags = tags, !.skip = skip, !.limit = limit],
                   avatars, rows, 0)

\* get_personas_by_author_uuid: CRUDPersona.get_by_author_uuid and the count
\* under the same filter
ListByAuthor(Authors) ==
    /\ last.op = "none"
    /\ \E author \in Authors, skip \in 0..MaxSkip, limit \in 1..MaxLimit :
       \E rows \in Orders({p \in personas : p.author_uuid = author}) :
          Answered("by_author",
                   [NoQuery EXCEPT !.author_uuid = author, !.skip = skip, !.limit = limit],
                   avatars, rows,
                   Cardinality({p \in personas : p.author_uuid = author}))

----------------------------------------------------------------------------
(* Aggregations: the authors and the tags of the stored personas *)

\* users.nickname: the first user registered with a nickname, the second
\* without one (the column is nullable and UserCreate.nickname optional)
nickname(u) == IF u = Alice THEN <<"A">> ELSE NULL

Unknown == <<"U","n","k","n","o","w","n">>

\* nickname or 'Unknown'
NicknameOrUnknown(n) == IF Truthy(n) THEN n ELSE Unknown

\* CRUDPersona.get_authors: the distinct (author_uuid, nickname) pairs of
\* personas joined with users
get_authors(P) ==
    {[uuid |-> p.author_uuid, nickname |-> nickname(p.author_uuid)] :
        p \in {q \in P : q.author_uuid \in Users}}

\* get_all_authors: response_model List[Dict[str, str]] rejects a value
\* that is not a string
get_all_authors(P) ==
    IF \E a \in get_authors(P) : a.nickname = NULL
    THEN [status |-> 500, body |-> {}]
    ELSE [status |-> 200, body |-> get_authors(P)]

ListAuthors ==
    /\ last.op = "none"
    /\ \E res \in {get_all_authors(personas)} :
          last' = [NoRequest EXCEPT !.op = "authors", !.status = res.status,
                                    !.body = res.body,
                                    !.P = personas, !.A = avatars]
    /\ UNCHANGED <<personas, avatars, nextId, clock, workers, completed, accountVars>>

\* str(count) and the number it denotes
Digits == <<"0", "1", "2", "3", "4", "5", "6", "7", "8", "9">>

RECURSIVE str(_)
str(n) ==
    IF n < 10 THEN <<Digits[n + 1]>> ELSE str(n \div 10) \o <<Digits[(n % 10) + 1]>>

\* the groups of the query of get_top_authors: personas JOIN users GROUP BY
\* author_uuid, nickname with count(personas.id)
AuthorGroups(P) ==
    {[uuid |-> u, nickname |-> nickname(u),
      count |-> Cardinality({p \in P : p.author_uuid = u})] :
        u \in {p.author_uuid : p \in P} \cap Users}

\* ORDER BY count DESC: the groups in an order the database may return,
\* equal counts in any order
ByCountDesc(G) ==
    {o \in Orders(G) : \A i, j \in DOMAIN o : i < j => o[i].count >= o[j].count}

\* the entry get_top_authors builds from a group
AuthorEntryMutant(g) ==
    [uuid |-> g.uuid, nickname |-> NicknameOrUnknown(g.nickname), count |-> str(1)]
AuthorEntry(g) ==
    [uuid |-> g.uuid, nickname |-> NicknameOrUnknown(g.nickname), count |-> str(g.count)]

\* get_top_authors
TopAuthors ==
    /\ last.op = "none"
    /\ \E limit \in 1..MaxLimit :
       \E stats \in ByCountDesc(AuthorGroups(personas)) :
          last' = [NoRequest EXCEPT
                      !.op = "top_authors", !.status = 200,
                      !.query = [NoQuery EXCEPT !.limit = limit],
                      !.items = [i \in DOMAIN Page(stats, 0, limit) |->
                                    AuthorEntry(Page(stats, 0, limit)[i])],
                      !.P = personas, !.A = avatars]
    /\ UNCHANGED <<personas, avatars, nextId, clock, workers, completed, accountVars>>

\* the characters of the model in the order of their code points
Alphabet == <<" ", "%", ",", "U", "_", "a", "b", "c", "d", "k", "n", "o", "w", "x", "y", "z">>

ord(c) == CHOOSE i \in DOMAIN Alphabet : Alphabet[i] = c

\* s < t on Python strings: by code point, a proper prefix first
RECURSIVE StrLess(_, _)
StrLess(s, t) ==
    IF t = <<>> THEN FALSE
    ELSE IF s = <<>> THEN TRUE
    ELSE IF Head(s) = Head(t) THEN StrLess(Tail(s), Tail(t))
    ELSE ord(Head(s)) < ord(Head(t))

Range(seq) == {seq[i] : i \in DOMAIN seq}

\* sorted(list(all_tags)) of a set of strings
sorted(S) ==
    CHOOSE seq \in [1..Cardinality(S) -> S] :
        \A i, j \in DOMAIN seq : i < j => StrLess(seq[i], seq[j])

Reverse(seq) == [i \in DOMAIN seq |-> seq[Len(seq) + 1 - i]]

\* db.query(Persona.tags).filter(Persona.tags.isnot(None)) with the test
\* 'if tag_str[0]': the rows whose tags are neither NULL nor empty
Tagged(P) == {p \in P : Truthy(p.tags)}

\* CRUDPersona.get_all_tags: the set of stripped non-empty tokens, sorted
get_all_tagsMutant(P) ==
    Reverse(sorted(UNION {Range(TagTokens(p.tags)) : p \in Tagged(P)}))
get_all_tags(P) ==
    sorted(UNION {Range(TagTokens(p.tags)) : p \in Tagged(P)})

\* get_all_tags of the tags router
ListAllTags ==
    /\ last.op = "none"
    /\ last' = [NoRequest EXCEPT !.op = "tags", !.status = 200,
                                 !.items = get_all_tags(personas),
                                 !.P = personas, !.A = avatars]
    /\ UNCHANGED <<personas, avatars, nextId, clock, workers, completed, accountVars>>

\* the tokens of the rows in the order the loop of get_tag_stats meets them
RECURSIVE Flatten(_)
Flatten(rows) ==
    IF rows = <<>> THEN <<>>
    ELSE TagTokens(Head(rows).tags) \o Flatten(Tail(rows))

\* tag_counts[tag] after the loop: one more for every occurrence
Occurrences(all, tag) == Cardinality({i \in DOMAIN all : all[i] = tag})

\* the position at which the loop inserted the key into the dict
FirstIndex(all, tag) == CHOOSE i \in DOMAIN all :
                            all[i] = tag /\ \A j \in 1..(i - 1) : all[j] # tag

\* dict(sorted(tag_counts.items(), key=lambda x: x[1], reverse=True)): by
\* descending count, equal counts in insertion order (the sort is stable)
tag_counts(all) ==
    LET seq == CHOOSE f \in [1..Cardinality(Range(all)) -> Range(all)] :
                  \A i, j \in DOMAIN f : i < j =>
                      \/ Occurrences(all, f[i]) > Occurrences(all, f[j])
                      \/ /\ Occurrences(all, f[i]) = Occurrences(all, f[j])
                         /\ FirstIndex(all, f[i]) < FirstIndex(all, f[j])
    IN  [i \in DOMAIN seq |-> [tag |-> seq[i], count |-> Occurrences(all, seq[i])]]

\* get_tag_stats, on the rows in the order the database returns them
TagStats ==
    /\ last.op = "none"
    /\ \E rows \in Orders(Tagged(personas)) :
       \E res \in {tag_counts(Flatten(rows))} :
          last' = [NoRequest EXCEPT !.op = "tag_stats", !.status = 200,
                                    !.items = res, !.total = Len(res),
                                    !.P = personas, !.A = avatars]
    /\ UNCHANGED <<personas, avatars, nextId, clock, workers, completed, accountVars>>

----------------------------------------------------------------------------
(* SpecSearch: the queries on a stored catalogue.  The tables start as any *)
(* part of a catalogue that create requests produce (tags canonical,       *)
(* content stripped, names unique).                                        *)

CatalogueRow(id, name, description, tags, author) ==
    [NewRow(id, 0, [NewCreate(name) EXCEPT !.content = Body,
                                          !.description = description,
                                          !.tags = format_tags(tags),
                                          !.author_uuid = author])
        EXCEPT !.view_count = 0]

Catalogue ==
    {CatalogueRow(1, <<"a","b">>, NULL, <<"x",",","x","y">>, Alice),
     CatalogueRow(2, <<"b">>, <<"a","_">>, NULL, Bob),
     CatalogueRow(3, <<"d">>, <<>>, <<"y",","," ","x",",","y">>, Alice)}

Keywords == {NULL, <<>>, <<"a">>, <<"a","b">>, <<"_">>, <<"z">>}
TagQueries == {NULL, <<"x">>, <<SP,"x",",","y">>, <<",">>, <<"z">>}

SearchQueries ==
    [keyword : Keywords, tags : TagQueries, author_uuid : {None, Alice, Bob},
     skip : 0..MaxSkip, limit : 1..MaxLimit]

InitSearch ==
    /\ personas \in SUBSET Catalogue
    /\ avatars = {}
    /\ nextId = 4
    /\ clock = 0
    /\ last = NoRequest
    /\ workers = [w \in Workers |-> Idle]
    /\ completed = [id \in Ids |-> 0]
    /\ InitAccounts

NextSearch ==
    \/ SearchPersonas(SearchQueries)
    \/ ListPersonas
    \/ ListByAuthor({Alice, Bob, <<"user", 3>>})
    \/ ListByTags(TagQueries \ {NULL})
    \/ ListAuthors
    \/ ListAllTags
    \/ TagStats
    \/ TopAuthors
    \/ Received

SpecSearch == InitSearch /\ [][NextSearch]_vars

\* s occurs in the column as a run of consecutive characters
Contains(col, s) ==
    /\ col # NULL
    /\ \E i \in 1..(Len(col) - Len(s) + 1) : SubSeq(col, i, i + Len(s) - 1) = s

\* the personas C7 says search selects: keyword a substring of name, of
\* description or of content; every non-empty trimmed tag token a substring
\* of tags; authorUuid equal; an absent filter excludes nothing
Selected(P, q) ==
    {p \in P :
        /\ Truthy(q.keyword)
              => \/ Contains(p.name, q.keyword)
                 \/ Contains(p.description, q.keyword)
                 \/ Contains(p.content, q.keyword)
        /\ Truthy(q.tags)
              => \A i \in DOMAIN TagTokens(q.tags) : Contains(p.tags, TagTokens(q.tags)[i])
        /\ q.author_uuid # None => p.author_uuid = q.author_uuid}

ItemIds(items) == {items[i].id : i \in DOMAIN items}

\* C17 as stated: listAuthors answers exactly one (authorUuid, nickname)
\* pair for each user who authors a stored persona and none for other
\* users, the nickname of an author without one being the label "Unknown".
C17_AuthorsListed ==
    last.op = "authors"
      => /\ last.status = 200
         /\ last.body =
               {[uuid |-> u,
                 nickname |-> IF nickname(u) = NULL THEN Unknown ELSE nickname(u)] :
                   u \in {p.author_uuid : p \in personas}}

\* C18: listAllTags answers the non-empty trimmed tokens of the tags of the
\* stored personas, each once, in ascending order; a persona with null tags
\* contributes nothing, a repeated tag appears once.
C18_AllTagsSorted ==
    last.op = "tags"
      => /\ last.status = 200
         /\ \A i, j \in DOMAIN last.items : i < j => StrLess(last.items[i], last.items[j])
         /\ Range(last.items) =
               {Strip(t) : t \in UNION {Range(Split(p.tags, <<>>)) :
                                           p \in {q \in personas : q.tags # NULL}}}
                  \ {<<>>}

\* three personas, one without tags, one repeating a tag and two sharing
\* one: the answer is x, xy, y
C18_Witness ==
    /\ last.op = "tags" /\ Cardinality(personas) = 3
    /\ last.items = << <<"x">>, <<"x","y">>, <<"y">> >>

\* C19 as stated: tagStats reports every tag of the stored personas with
\* the number of personas that carry it, a persona counting once for a tag
\* however often its tags repeat it, in order of descending count.
C19_TagStats ==
    last.op = "tag_stats"
      => /\ {last.items[i].tag : i \in DOMAIN last.items}
               = UNION {Range(TagTokens(p.tags)) : p \in Tagged(personas)}
         /\ \A i \in DOMAIN last.items :
               last.items[i].count =
                  Cardinality({p \in Tagged(personas) :
                                  last.items[i].tag \in Range(TagTokens(p.tags))})
         /\ \A i, j \in DOMAIN last.items :
               i < j => last.items[i].count >= last.items[j].count

\* C7 as stated: search returns exactly the personas that satisfy every
\* filter that is present (substring, AND over the tag tokens, author
\* equality): each returned persona is one of them and the total counts them.
C7_SearchExact ==
    last.op = "search"
      => /\ ItemIds(last.items) \subseteq {p.id : p \in Selected(personas, last.query)}
         /\ last.total = Cardinality(Selected(personas, last.query))

\* C8: for the plain page, search and the page of one author, total is the
\* number of stored personas under the operation's filter, whatever skip and
\* limit are, and the page holds min(limit, max(0, total - skip)) items, all
\* under the filter and none twice.
Filtered(op, P, q) ==
    IF op = "search" THEN SearchFilter(P, q)
    ELSE IF op = "by_author" THEN {p \in P : p.author_uuid = q.author_uuid}
    ELSE P

Min(a, b) == IF a <= b THEN a ELSE b
Max(a, b) == IF a >= b THEN a ELSE b

C8_PageAndTotal ==
    last.op \in {"search", "list", "by_author"}
      => /\ last.total = Cardinality(Filtered(last.op, personas, last.query))
         /\ Len(last.items) =
               Min(last.query.limit, Max(0, last.total - last.query.skip))
         /\ ItemIds(last.items)
               \subseteq {p.id : p \in Filtered(last.op, personas, last.query)}
         /\ Cardinality(ItemIds(last.items)) = Len(last.items)

\* a search whose filter keeps two of three personas, read from offset 1
C8_Witness ==
    /\ last.op = "search" /\ last.query.author_uuid = Alice
    /\ Cardinality(personas) = 3
    /\ last.total = 2 /\ last.query.skip = 1 /\ last.query.limit = 2
    /\ Len(last.items) = 1

\* the number a decimal string denotes
RECURSIVE ToInt(_)
ToInt(d) ==
    IF d = <<>> THEN 0
    ELSE 10 * ToInt(SubSeq(d, 1, Len(d) - 1))
           + (CHOOSE k \in 0..9 : Digits[k + 1] = d[Len(d)])

\* the number of stored personas of an author
Authored(u) == Cardinality({p \in personas : p.author_uuid = u})

\* C20: topAuthors(limit) answers min(limit, number of authors that have a
\* persona) entries, no author twice, each with the number of personas of
\* its author, in non-increasing order of that number, and no author left
\* out has more personas than an author in the answer.
C20_TopAuthors ==
    last.op = "top_authors"
      => LET authors == {p.author_uuid : p \in personas}
             shown == {last.items[i].uuid : i \in DOMAIN last.items}
         IN  /\ last.status = 200
             /\ Len(last.items) = Min(last.query.limit, Cardinality(authors))
             /\ Cardinality(shown) = Len(last.items)
             /\ shown \subseteq authors
             /\ \A i \in DOMAIN last.items :
                   ToInt(last.items[i].count) = Authored(last.items[i].uuid)
             /\ \A i, j \in DOMAIN last.items :
                   i < j => ToInt(last.items[i].count) >= ToInt(last.items[j].count)
             /\ \A u \in authors \ shown : \A v \in shown : Authored(u) <= Authored(v)

\* of two authors with two personas and one, the top one alone is answered
C20_Witness ==
    /\ last.op = "top_authors" /\ last.query.limit = 1
    /\ Cardinality(personas) = 3
    /\ last.items = <<[uuid |-> Alice, nickname |-> <<"A">>, count |-> <<"2">>]>>

\* the ids of a page, in its order
PageIds(items) == [i \in DOMAIN items |-> items[i].id]

\* the pages a query over the rows S may answer for skip and limit
Pages(S, q) == {PageIds(Page(rows, q.skip, q.limit)) : rows \in Orders(S)}

\* C26: the page listByTags answers for a tags value is a page that search
\* with only that tags value, the same skip and the same limit may answer,
\* and the other way round; a tags value whose tokens are all empty filters
\* nothing in either
C26_ByTagsAsSearch ==
    /\ last.op = "by_tags"
          => /\ PageIds(last.items) \in Pages(SearchFilter(personas, last.query), last.query)
             /\ TagTokens(last.query.tags) = <<>>
                   => PageIds(last.items) \in Pages(personas, last.query)
    /\ (/\ last.op = "search" /\ last.query.tags # NULL
        /\ last.query.keyword = NULL /\ last.query.author_uuid = None)
          => /\ PageIds(last.items)
                   \in Pages(get_by_tags(personas, last.query.tags), last.query)
             /\ TagTokens(last.query.tags) = <<>>
                   => PageIds(last.items) \in Pages(personas, last.query)

\* the tags value ',' listed a persona that has no tags
C26_Witness ==
    /\ last.op = "by_tags" /\ last.query.tags = <<",">>
    /\ \E i \in DOMAIN last.items : last.items[i].tags = NULL

============================================================================
